---- MODULE Spec2Model ----
(***************************************************************************)
(* Rating & ranking engine and points economy of the edu-platform backend. *)
(*                                                                         *)
(* The document store is modelled by its collections: users, ratings,      *)
(* homeworks and rewards, each a sequence in insertion order (a document's *)
(* identifier is its position).  Route handlers of the rating engine are   *)
(* single actions; the handlers of the points economy are split at their   *)
(* store reads and writes (one action per await), so that concurrent       *)
(* requests interleave exactly where the event loop lets them.             *)
(*                                                                         *)
(* Numbers: averageGrade and grades are quotients of integers and are kept *)
(* as reduced fractions [num, den]; every other Rating field is an         *)
(* integer.  Math.round(x) is floor(x + 1/2), computed exactly.  The       *)
(* timestamps (lastUpdated, createdAt, updatedAt, claimedAt, completedAt)  *)
(* and the free-text fields are not modelled.                              *)
(***************************************************************************)
EXTENDS Integers, Sequences, FiniteSets, TLC

VARIABLES
    users,       \* User collection: student documents
    ratings,     \* Rating collection
    homeworks,   \* Homework collection
    rewards,     \* Reward collection
    reqs,        \* requests of the points economy that are in flight
    response     \* the response sent by the request that completed last

vars == <<users, ratings, homeworks, rewards, reqs, response>>

(***************************************************************************)
(* Bounds of the model and the inputs requests are drawn from.             *)
(***************************************************************************)
MaxStudents == 2      \* students of the full rating engine (Spec)
MaxRanked == 3        \* students of the ranking specification (RankSpec)
MaxHomeworks == 1

Groups == {"g1", "g2"}
NoGroup == "none"

\* totalGrade values a teacher submits (Homework schema: 0..10)
TotalGrades == {0, 8}

(***************************************************************************)
(* Arithmetic.                                                             *)
(***************************************************************************)
RECURSIVE GCD(_, _)
GCD(a, b) == IF b = 0 THEN a ELSE GCD(b, a % b)

\* the quotient n / d (n >= 0, d > 0) as a reduced fraction
Quot(n, d) == LET g == GCD(n, d) IN [num |-> n \div g, den |-> d \div g]

FracOfInt(n) == [num |-> n, den |-> 1]

\* Math.round(n / d) for d > 0: the nearest integer, halves towards +infinity
RoundDiv(n, d) == (2 * n + d) \div (2 * d)

(***************************************************************************)
(* Rating: schema defaults, validators and the pre('save') hook.           *)
(***************************************************************************)
NewRating(s, g) ==
    [student |-> s, group |-> g,
     grades |-> FracOfInt(0), attendance |-> 0,
     homeworkCompletion |-> 0, classParticipation |-> 0,
     totalScore |-> 0, rankInGroup |-> 0,
     totalHomeworks |-> 0, completedHomeworks |-> 0,
     totalClasses |-> 0, attendedClasses |-> 0,
     participationCount |-> 0, averageGrade |-> FracOfInt(0)]

\* Math.round(grades*0.4 + attendance*0.25 + homeworkCompletion*0.25
\*            + classParticipation*0.1) over the fields of row r
WeightedScore(r) ==
    RoundDiv(8 * r.grades.num
               + r.grades.den * (5 * r.attendance + 5 * r.homeworkCompletion
                                 + 2 * r.classParticipation),
             20 * r.grades.den)

\* Math.round((part / total) * 10)
Percentage(part, total) == RoundDiv(10 * part, total)

\* the hook without its two recomputations from the counters
PreSaveNoOverride(r) == [r EXCEPT !.totalScore = WeightedScore(r)]

\* the hook, statement by statement: totalScore first, then the percentages
PreSave(r) ==
    LET r1 == [r EXCEPT !.totalScore = WeightedScore(r)]
        r2 == IF r1.totalHomeworks > 0
              THEN [r1 EXCEPT !.homeworkCompletion =
                        Percentage(r1.completedHomeworks, r1.totalHomeworks)]
              ELSE r1
        r3 == IF r2.totalClasses > 0
              THEN [r2 EXCEPT !.attendance =
                        Percentage(r2.attendedClasses, r2.totalClasses)]
              ELSE r2
    IN r3

\* min: 0, max: 10 of the schema
InScale(v) == 0 <= v /\ v <= 10
FracInScale(f) == 0 <= f.num /\ f.num <= 10 * f.den

\* a save that validates nothing
ValidatedNothing(r) == TRUE

\* save() validates the document as the handler left it, before the
\* pre('save') hooks run: every path with a min/max validator is checked
Validated(r) ==
    /\ FracInScale(r.grades)
    /\ FracInScale(r.averageGrade)
    /\ InScale(r.attendance)
    /\ InScale(r.homeworkCompletion)
    /\ InScale(r.classParticipation)
    /\ InScale(r.totalScore)

(***************************************************************************)
(* Store queries.                                                          *)
(***************************************************************************)
\* Rating.findOne({student, group}): the position of the row, 0 if none
FindRating(s, g) ==
    LET hits == {i \in DOMAIN ratings :
                    ratings[i].student = s /\ ratings[i].group = g}
    IN IF hits = {} THEN 0 ELSE CHOOSE i \in hits : \A j \in hits : i <= j

\* Rating.find({group}): the positions of the group's rows
GroupRows(g) == {i \in DOMAIN ratings : ratings[i].group = g}

NewUser(g) ==
    [group |-> g, points |-> 0, completedBonusTasks |-> <<>>,
     achievements |-> <<>>]

\* res.status(status).json({message}) of handler op; item is the homework,
\* reward or bonus task the request named (0 when it named none); data is
\* the newAchievements of a bonus-task completion
Resp(op, status, message, s, g, item) ==
    [op |-> op, status |-> status, message |-> message,
     student |-> s, group |-> g, item |-> item, data |-> <<>>]

(***************************************************************************)
(* POST /api/auth/register (role student): the user, then its zeroed       *)
(* Rating row through Rating.create, which runs the save hook.             *)
(***************************************************************************)
Register(g, cap) ==
    /\ Len(users) < cap
    /\ users' = Append(users, NewUser(g))
    /\ ratings' = Append(ratings, PreSave(NewRating(Len(users) + 1, g)))
    /\ response' = Resp("register", 201, "User registered successfully", Len(users) + 1, g, 0)
    /\ UNCHANGED <<homeworks, rewards, reqs>>

(***************************************************************************)
(* Homework: create, submit, grade.                                        *)
(***************************************************************************)
NoSubmission == [status |-> "none", totalGrade |-> -1]

\* POST /api/homework
CreateHomework(g, cap) ==
    /\ Len(homeworks) < cap
    /\ homeworks' = Append(homeworks,
                           [group |-> g,
                            submissions |-> [s \in 1..MaxStudents |-> NoSubmission]])
    /\ response' = Resp("createHomework", 201, "Homework created successfully", 0, g, Len(homeworks) + 1)
    /\ UNCHANGED <<users, ratings, rewards, reqs>>

HasSubmission(hw, s) == hw.submissions[s].status # "none"

\* POST /api/homework/:id/submit; totalGrade stays unset (-1) until graded
SubmitHomework(h, s) ==
    /\ s \in DOMAIN users
    /\ IF h \notin DOMAIN homeworks
       THEN /\ response' = Resp("submit", 404, "Homework not found", s, NoGroup, h)
            /\ UNCHANGED homeworks
       ELSE IF HasSubmission(homeworks[h], s)
       THEN /\ response' = Resp("submit", 400, "Homework already submitted", s, NoGroup, h)
            /\ UNCHANGED homeworks
       ELSE /\ homeworks' = [homeworks EXCEPT ![h].submissions[s] =
                                [status |-> "submitted", totalGrade |-> -1]]
            /\ response' = Resp("submit", 200, "Homework submitted successfully", s, NoGroup, h)
    /\ UNCHANGED <<users, ratings, rewards, reqs>>

\* the forEach of updateStudentRating over the group's homework: a submission
\* counts as completed; its grade is added when totalGrade is truthy
RECURSIVE SumGrades(_, _, _)
SumGrades(hws, s, g) ==
    IF hws = <<>> THEN [total |-> 0, count |-> 0, completed |-> 0, homeworks |-> 0]
    ELSE LET rest == SumGrades(Tail(hws), s, g)
             hw == Head(hws)
             sub == hw.submissions[s]
         IN IF hw.group # g THEN rest
            ELSE [homeworks |-> rest.homeworks + 1,
                  completed |-> rest.completed + (IF HasSubmission(hw, s) THEN 1 ELSE 0),
                  total |-> rest.total
                              + (IF HasSubmission(hw, s) /\ sub.totalGrade > 0
                                 THEN sub.totalGrade ELSE 0),
                  count |-> rest.count
                              + (IF HasSubmission(hw, s) /\ sub.totalGrade > 0
                                 THEN 1 ELSE 0)]

\* the fields updateStudentRating assigns before it saves
Recomputed(r, hws) ==
    LET f == SumGrades(hws, r.student, r.group)
        avg == IF f.count > 0 THEN Quot(f.total, f.count) ELSE FracOfInt(0)
    IN [r EXCEPT !.averageGrade = avg, !.grades = avg,
                 !.totalHomeworks = f.homeworks,
                 !.completedHomeworks = f.completed]

\* rating.save(): validation, then the hook, then the write; a document that
\* fails validation is not written
SavedRow(old, new) == IF Validated(new) THEN PreSave(new) ELSE old

\* updateStudentRating(studentId, groupId) on the store holding hws; a missing
\* row and a failed save are swallowed
UpdateStudentRating(s, g, hws) ==
    LET i == FindRating(s, g)
    IN IF i = 0 THEN ratings
       ELSE [ratings EXCEPT ![i] = SavedRow(ratings[i], Recomputed(ratings[i], hws))]

\* PUT /api/homework/:id/grade
GradeHomework(h, s, tg) ==
    /\ s \in DOMAIN users
    /\ IF h \notin DOMAIN homeworks
       THEN /\ response' = Resp("grade", 404, "Homework not found", s, NoGroup, h)
            /\ UNCHANGED <<homeworks, ratings>>
       ELSE IF ~HasSubmission(homeworks[h], s)
       THEN /\ response' = Resp("grade", 404, "Submission not found", s, NoGroup, h)
            /\ UNCHANGED <<homeworks, ratings>>
       ELSE LET graded == [homeworks EXCEPT ![h].submissions[s] =
                              [status |-> "graded", totalGrade |-> tg]]
            IN /\ homeworks' = graded
               /\ ratings' = UpdateStudentRating(s, homeworks[h].group, graded)
               /\ response' = Resp("grade", 200, "Homework graded successfully", s, homeworks[h].group, h)
    /\ UNCHANGED <<users, rewards, reqs>>

(***************************************************************************)
(* PUT /api/ratings/student/:studentId                                     *)
(***************************************************************************)
\* request bodies: a field the body leaves out is undefined
UpdateBodies ==
    { [grades |-> 10],
      [attendedClasses |-> 1, totalClasses |-> 1] }

BodyField(body, f, old) == IF f \in DOMAIN body THEN body[f] ELSE old

Assigned(r, body) ==
    [r EXCEPT
       !.grades = IF "grades" \in DOMAIN body THEN FracOfInt(body.grades) ELSE @,
       !.attendance = BodyField(body, "attendance", @),
       !.homeworkCompletion = BodyField(body, "homeworkCompletion", @),
       !.classParticipation = BodyField(body, "classParticipation", @),
       !.attendedClasses = BodyField(body, "attendedClasses", @),
       !.totalClasses = BodyField(body, "totalClasses", @),
       !.participationCount = BodyField(body, "participationCount", @)]

UpdateRating(s, body) ==
    /\ IF s \notin DOMAIN users
       THEN /\ response' = Resp("updateRating", 404, "Student not found", s, NoGroup, 0)
            /\ UNCHANGED ratings
       ELSE IF users[s].group = NoGroup
       THEN \* student.group._id of a student without group throws
            /\ response' = Resp("updateRating", 500, "Server error", s, NoGroup, 0)
            /\ UNCHANGED ratings
       ELSE LET g == users[s].group
                i == FindRating(s, g)
                old == IF i = 0 THEN NewRating(s, g) ELSE ratings[i]
                new == Assigned(old, body)
            IN IF ~Validated(new)
               THEN /\ response' = Resp("updateRating", 500, "Server error", s, g, 0)
                    /\ UNCHANGED ratings
               ELSE /\ ratings' = IF i = 0 THEN Append(ratings, PreSave(new))
                                  ELSE [ratings EXCEPT ![i] = PreSave(new)]
                    /\ response' = Resp("updateRating", 200, "Rating updated successfully", s, g, 0)
    /\ UNCHANGED <<users, homeworks, rewards, reqs>>

(***************************************************************************)
(* Rank resolve: GET /api/ratings/group/:groupId and the same three        *)
(* statements in GET /api/ratings/student/:studentId.                      *)
(***************************************************************************)
\* the orders in which Rating.find({group}).sort({totalScore: -1}) may return
\* the rows.  The query names no second sort key and the store promises no
\* order among rows of equal totalScore: every order of the tied rows is a
\* possible result.  With stable = TRUE the store is the one that returns
\* tied rows in insertion order (a scan of the {group, totalScore} index).
SortedOrders(g, stable) ==
    LET rows == GroupRows(g)
        n == Cardinality(rows)
    IN {o \in [1..n -> rows] :
          /\ \A a, b \in 1..n : a # b => o[a] # o[b]
          /\ \A a \in 1..n : a < n =>
                \/ ratings[o[a]].totalScore > ratings[o[a + 1]].totalScore
                \/ /\ ratings[o[a]].totalScore = ratings[o[a + 1]].totalScore
                   /\ stable => o[a] < o[a + 1]}

\* rating.rankInGroup = index + 1 (k is the 1-based position in the result)
RankAtZeroBased(k) == k - 1

RankAt(k) == (k - 1) + 1

PositionIn(o, i) == CHOOSE k \in DOMAIN o : o[k] = i

\* forEach assigns the ranks, Promise.all saves every row of the result
Resolved(g, o) ==
    [i \in DOMAIN ratings |->
        IF ratings[i].group = g
        THEN LET ranked == [ratings[i] EXCEPT !.rankInGroup = RankAt(PositionIn(o, i))]
             IN SavedRow(ratings[i], ranked)
        ELSE ratings[i]]

\* the answer of a resolve: Promise.all rejects when a save fails validation
\* (the saves of the other rows still reach the store), and the catch block
\* answers 500; the 200 carries the rows read, of which item is the number
\* a resolve that answers 404 for a group without rows
ResolveRespNotFound(op, s, g) ==
    IF GroupRows(g) = {}
    THEN Resp(op, 404, "Rating not found", s, g, 0)
    ELSE Resp(op, 200, "", s, g, Cardinality(GroupRows(g)))

ResolveResp(op, s, g) ==
    IF \A i \in GroupRows(g) : Validated(ratings[i])
    THEN Resp(op, 200, "", s, g, Cardinality(GroupRows(g)))
    ELSE Resp(op, 500, "Server error", s, g, 0)

GetGroupRatings(g, stable) ==
    /\ \E o \in SortedOrders(g, stable) : ratings' = Resolved(g, o)
    /\ response' = ResolveResp("groupRatings", 0, g)
    /\ UNCHANGED <<users, homeworks, rewards, reqs>>

GetStudentRating(s, stable) ==
    /\ IF s \notin DOMAIN users
       THEN /\ response' = Resp("studentRating", 404, "Student not found", s, NoGroup, 0)
            /\ UNCHANGED ratings
       ELSE IF users[s].group = NoGroup
       THEN /\ response' = Resp("studentRating", 500, "Server error", s, NoGroup, 0)
            /\ UNCHANGED ratings
       ELSE IF FindRating(s, users[s].group) = 0
       THEN /\ response' = Resp("studentRating", 404, "Rating not found", s, users[s].group, 0)
            /\ UNCHANGED ratings
       ELSE /\ \E o \in SortedOrders(users[s].group, stable) :
                  ratings' = Resolved(users[s].group, o)
            /\ response' = ResolveResp("studentRating", s, users[s].group)
    /\ UNCHANGED <<users, homeworks, rewards, reqs>>

(***************************************************************************)
(* The rating engine: handlers run one at a time.                          *)
(***************************************************************************)
NoResponse == Resp("none", 0, "", 0, NoGroup, 0)

Init ==
    /\ users = <<>>
    /\ ratings = <<>>
    /\ homeworks = <<>>
    /\ rewards = <<>>
    /\ reqs = <<>>
    /\ response = NoResponse

Next ==
    \/ \E g \in Groups : Register(g, MaxStudents)
    \/ \E g \in Groups : CreateHomework(g, MaxHomeworks)
    \/ \E h \in 1..MaxHomeworks, s \in 1..MaxStudents : SubmitHomework(h, s)
    \/ \E h \in 1..MaxHomeworks, s \in 1..MaxStudents, tg \in TotalGrades :
          GradeHomework(h, s, tg)
    \/ \E s \in 1..MaxStudents, body \in UpdateBodies : UpdateRating(s, body)
    \/ \E g \in Groups : GetGroupRatings(g, FALSE)
    \/ \E s \in 1..MaxStudents : GetStudentRating(s, FALSE)

Spec == Init /\ [][Next]_vars

(***************************************************************************)
(* The ranking engine alone: registration, teacher updates and resolves    *)
(* over a larger group, without the homework collection.                   *)
(***************************************************************************)
RankNext(stable) ==
    \/ \E g \in Groups : Register(g, MaxRanked)
    \/ \E s \in 1..MaxRanked, body \in UpdateBodies : UpdateRating(s, body)
    \/ \E g \in Groups : GetGroupRatings(g, stable)
    \/ \E s \in 1..MaxRanked : GetStudentRating(s, stable)

RankSpec == Init /\ [][RankNext(FALSE)]_vars

\* the behaviours of RankSpec in which every resolve meets the store that
\* returns tied rows in insertion order
StableRankSpec == Init /\ [][RankNext(TRUE)]_vars

(***************************************************************************)
(* The rating engine under teacher updates of every kind: values in and    *)
(* out of the scale, supplied percentages, and counters that do not add up. *)
(***************************************************************************)
MaxScaled == 1        \* students whose ratings are updated

ScaleBodies ==
    UpdateBodies \cup
    { [attendance |-> 7],
      [homeworkCompletion |-> 7],
      [attendedClasses |-> 2, totalClasses |-> 3],
      [attendedClasses |-> 2, totalClasses |-> 1],
      [attendedClasses |-> 0, totalClasses |-> 0],
      [grades |-> 11],
      [attendance |-> 0 - 1],
      [homeworkCompletion |-> 11],
      [grades |-> 10, classParticipation |-> 11] }

ScaleNext ==
    \/ \E g \in Groups : Register(g, MaxScaled)
    \/ \E g \in Groups : CreateHomework(g, MaxHomeworks)
    \/ \E h \in 1..MaxHomeworks, s \in 1..MaxScaled : SubmitHomework(h, s)
    \/ \E h \in 1..MaxHomeworks, s \in 1..MaxScaled, tg \in TotalGrades :
          GradeHomework(h, s, tg)
    \/ \E s \in 1..MaxScaled, body \in ScaleBodies : UpdateRating(s, body)
    \/ \E g \in Groups : GetGroupRatings(g, FALSE)

ScaleSpec == Init /\ [][ScaleNext]_vars

(***************************************************************************)
(* Points economy: the bonus-task catalog, rewards, and the requests that  *)
(* credit and debit a student's points.  A request in flight holds what    *)
(* its handler has read so far; each action below is one await of the      *)
(* handler together with the synchronous code that follows it.             *)
(***************************************************************************)
MaxInFlight == 2      \* requests the server processes at the same time
MaxRewards == 2       \* rewards in the catalog

\* bonusTasksData: points of task id 1..8
BonusTaskPoints == <<10, 25, 15, 50, 30, 40, 35, 20>>

\* task ids that requests name; 9 is no task of the catalog
RequestedTasks == {1, 2, 9}

\* pointsRequired and order of the rewards teachers create
RewardPoints == {10, 25}
RewardOrders == {1, 2}

\* a request: the handler's position and, of the documents it has loaded, the
\* fields it goes on to use (req.user.points; the reward's pointsRequired and
\* order; the user's points and the length of its completedBonusTasks)
Idle ==
    [pc |-> "idle", student |-> 0, reward |-> 0, task |-> 0,
     userPoints |-> 0, pointsRequired |-> 0, order |-> 0, completedCount |-> 0,
     lastAchievement |-> <<>>]

Slots == 1..MaxInFlight

\* POST /api/rewards: Reward.create validates pointsRequired >= 1 and the
\* unique index on order rejects a second reward of the same order
CreateReward(pr, ord) ==
    /\ Len(rewards) < MaxRewards
    /\ IF pr < 1 \/ \E r \in DOMAIN rewards : rewards[r].order = ord
       THEN /\ response' = Resp("createReward", 500, "Server error", 0, NoGroup, 0)
            /\ UNCHANGED rewards
       ELSE /\ rewards' = Append(rewards, [pointsRequired |-> pr, order |-> ord,
                                           isActive |-> TRUE, claimedBy |-> <<>>])
            /\ response' = Resp("createReward", 201, "Reward created successfully",
                                0, NoGroup, 0)
    /\ UNCHANGED <<users, ratings, homeworks, reqs>>

\* claimedBy.find(claim => claim.student === student)
HasClaim(doc, s) == \E k \in DOMAIN doc.claimedBy : doc.claimedBy[k].student = s

\* the negation of req.user.points < reward.pointsRequired
EnoughPointsAlways(points, required) == TRUE

EnoughPoints(points, required) == ~(points < required)

\* a new request takes the first slot that is free
FreeSlot(c) == reqs[c].pc = "idle" /\ \A d \in 1..(c - 1) : reqs[d].pc # "idle"

\* auth: User.findById(decoded.id) becomes req.user; authorize('student')
ClaimAuth(c, s, r) ==
    /\ s \in DOMAIN users
    /\ FreeSlot(c)
    /\ reqs' = [reqs EXCEPT ![c] = [Idle EXCEPT !.pc = "findReward", !.student = s,
                                                !.reward = r,
                                                !.userPoints = users[s].points]]
    /\ UNCHANGED <<users, ratings, homeworks, rewards, response>>

Finish(c, resp) ==
    /\ reqs' = [reqs EXCEPT ![c] = Idle]
    /\ response' = resp

\* Reward.findById, then the checks on points and on an existing claim
ClaimFindRewardClaimedFirst(c) ==
    LET q == reqs[c] IN
    /\ q.pc = "findReward"
    /\ IF q.reward \notin DOMAIN rewards
       THEN Finish(c, Resp("claim", 404, "Reward not found", q.student, NoGroup, q.reward))
       ELSE IF HasClaim(rewards[q.reward], q.student)
       THEN Finish(c, Resp("claim", 400, "Reward already claimed", q.student, NoGroup, q.reward))
       ELSE IF ~EnoughPoints(q.userPoints, rewards[q.reward].pointsRequired)
       THEN Finish(c, Resp("claim", 400, "Insufficient points", q.student, NoGroup, q.reward))
       ELSE /\ reqs' = [reqs EXCEPT ![c].pc = "findPrevious",
                                    ![c].pointsRequired = rewards[q.reward].pointsRequired,
                                    ![c].order = rewards[q.reward].order]
            /\ UNCHANGED response
    /\ UNCHANGED <<users, ratings, homeworks, rewards>>

ClaimFindReward(c) ==
    LET q == reqs[c] IN
    /\ q.pc = "findReward"
    /\ IF q.reward \notin DOMAIN rewards
       THEN Finish(c, Resp("claim", 404, "Reward not found", q.student, NoGroup, q.reward))
       ELSE IF ~EnoughPoints(q.userPoints, rewards[q.reward].pointsRequired)
       THEN Finish(c, Resp("claim", 400, "Insufficient points", q.student, NoGroup, q.reward))
       ELSE IF HasClaim(rewards[q.reward], q.student)
       THEN Finish(c, Resp("claim", 400, "Reward already claimed", q.student, NoGroup, q.reward))
       ELSE /\ reqs' = [reqs EXCEPT ![c].pc = "findPrevious",
                                    ![c].pointsRequired = rewards[q.reward].pointsRequired,
                                    ![c].order = rewards[q.reward].order]
            /\ UNCHANGED response
    /\ UNCHANGED <<users, ratings, homeworks, rewards>>

\* Reward.findOne({order: reward.order - 1, isActive: true})
PreviousRewardsNone(ord) == {}

PreviousRewards(ord) ==
    {r \in DOMAIN rewards : rewards[r].order = ord - 1 /\ rewards[r].isActive}

\* the sequential-order check, then reward.claimedBy.push on the loaded document
ClaimFindPrevious(c) ==
    LET q == reqs[c]
        prev == PreviousRewards(q.order)
    IN
    /\ q.pc = "findPrevious"
    /\ IF \E r \in prev : ~HasClaim(rewards[r], q.student)
       THEN Finish(c, Resp("claim", 400, "Must claim previous rewards first",
                           q.student, NoGroup, q.reward))
       ELSE /\ reqs' = [reqs EXCEPT ![c].pc = "debit"]
            /\ UNCHANGED response
    /\ UNCHANGED <<users, ratings, homeworks, rewards>>

\* User.findByIdAndUpdate(id, {$inc: {points: -pointsRequired}})
ClaimDebitTwice(c) ==
    LET q == reqs[c] IN
    /\ q.pc = "debit"
    /\ users' = [users EXCEPT ![q.student].points = @ - 2 * q.pointsRequired]
    /\ reqs' = [reqs EXCEPT ![c].pc = "save"]
    /\ UNCHANGED <<ratings, homeworks, rewards, response>>

ClaimDebit(c) ==
    LET q == reqs[c] IN
    /\ q.pc = "debit"
    /\ users' = [users EXCEPT ![q.student].points = @ - q.pointsRequired]
    /\ reqs' = [reqs EXCEPT ![c].pc = "save"]
    /\ UNCHANGED <<ratings, homeworks, rewards, response>>

\* reward.save(): the pushed claim record is appended to the stored array
ClaimSave(c) ==
    LET q == reqs[c] IN
    /\ q.pc = "save"
    /\ rewards' = [rewards EXCEPT ![q.reward].claimedBy =
                        Append(@, [student |-> q.student, status |-> "pending"])]
    /\ Finish(c, Resp("claim", 200, "Reward claimed successfully",
                      q.student, NoGroup, q.reward))
    /\ UNCHANGED <<users, ratings, homeworks>>

\* the milestone of a completed-task count: the title pushed, if any
\* array.slice(-1): the last element, as a sequence of at most one
Slice1(seq) == IF seq = <<>> THEN <<>> ELSE <<seq[Len(seq)]>>

MilestoneFirstOnly(count) ==
    IF count = 1 THEN <<"Birinchi bonus vazifa">> ELSE <<>>

Milestone(count) ==
    IF count = 1 THEN <<"Birinchi bonus vazifa">>
    ELSE IF count = 5 THEN <<"Faol o'quvchi">>
    ELSE IF count = 10 THEN <<"Bonus ustasi">>
    ELSE <<>>

\* the handler without its already-completed check
BonusFindUserNoCheck(c, s, t) ==
    /\ FreeSlot(c)
    /\ s \in DOMAIN users
    /\ IF t \notin DOMAIN BonusTaskPoints
       THEN Finish(c, Resp("completeBonusTask", 404, "Bonus task not found", s, NoGroup, t))
       ELSE /\ reqs' = [reqs EXCEPT ![c] =
                   [Idle EXCEPT !.pc = "saveUser", !.student = s, !.task = t,
                                !.userPoints = users[s].points,
                                !.completedCount = Len(users[s].completedBonusTasks),
                                !.lastAchievement = Slice1(users[s].achievements)]]
            /\ UNCHANGED response
    /\ UNCHANGED <<users, ratings, homeworks, rewards>>

\* POST /api/bonus-tasks/:taskId/complete up to its save: the catalog lookup,
\* User.findById, the already-completed check and the changes made to the
\* loaded document (auth's own read of the user is not used by the handler)
BonusFindUser(c, s, t) ==
    /\ FreeSlot(c)
    /\ s \in DOMAIN users
    /\ IF t \notin DOMAIN BonusTaskPoints
       THEN Finish(c, Resp("completeBonusTask", 404, "Bonus task not found", s, NoGroup, t))
       ELSE IF \E k \in DOMAIN users[s].completedBonusTasks :
                    users[s].completedBonusTasks[k].taskId = t
       THEN Finish(c, Resp("completeBonusTask", 400, "Task already completed", s, NoGroup, t))
       ELSE /\ reqs' = [reqs EXCEPT ![c] =
                   [Idle EXCEPT !.pc = "saveUser", !.student = s, !.task = t,
                                !.userPoints = users[s].points,
                                !.completedCount = Len(users[s].completedBonusTasks),
                                !.lastAchievement = Slice1(users[s].achievements)]]
            /\ UNCHANGED response
    /\ UNCHANGED <<users, ratings, homeworks, rewards>>

\* user.save(): points is written as the value computed from the loaded
\* document ($set); the pushed records are appended to the stored arrays
BonusSave(c) ==
    LET q == reqs[c]
        earned == BonusTaskPoints[q.task]
        count == q.completedCount + 1
    IN
    /\ q.pc = "saveUser"
    /\ users' = [users EXCEPT
                   ![q.student].completedBonusTasks =
                        Append(@, [taskId |-> q.task, pointsEarned |-> earned]),
                   ![q.student].points = q.userPoints + earned,
                   ![q.student].achievements = @ \o Milestone(count)]
    /\ Finish(c, [Resp("completeBonusTask", 200, "Bonus task completed successfully!",
                       q.student, NoGroup, q.task)
                    EXCEPT !.data = Slice1(q.lastAchievement \o Milestone(count))])
    /\ UNCHANGED <<ratings, homeworks, rewards>>

\* one registered student, no reward, no request in flight
LedgerInit ==
    /\ users = <<NewUser("g1")>>
    /\ ratings = <<PreSave(NewRating(1, "g1"))>>
    /\ homeworks = <<>>
    /\ rewards = <<>>
    /\ reqs = [c \in Slots |-> Idle]
    /\ response = NoResponse

\* a request starts in a free slot among the first k: the server works on at
\* most k requests at a time (a reward creation has one store call and takes
\* no slot, but counts as a request while it runs)
LedgerNext(k) ==
    \/ /\ Cardinality({c \in Slots : reqs[c].pc # "idle"}) < k
       /\ \E pr \in RewardPoints, ord \in RewardOrders : CreateReward(pr, ord)
    \/ \E c \in 1..k, s \in DOMAIN users, r \in 1..MaxRewards : ClaimAuth(c, s, r)
    \/ \E c \in 1..k : ClaimFindReward(c)
    \/ \E c \in 1..k : ClaimFindPrevious(c)
    \/ \E c \in 1..k : ClaimDebit(c)
    \/ \E c \in 1..k : ClaimSave(c)
    \/ \E c \in 1..k, s \in DOMAIN users, t \in RequestedTasks : BonusFindUser(c, s, t)
    \/ \E c \in 1..k : BonusSave(c)

\* requests run one at a time, each to completion before the next starts
LedgerSeqSpec == LedgerInit /\ [][LedgerNext(1)]_vars

\* requests interleave at their store reads and writes
LedgerSpec == LedgerInit /\ [][LedgerNext(MaxInFlight)]_vars

\* bonus-task completions alone, one request at a time, over enough tasks of
\* the catalog to pass the milestone counts
MaxTasks == 6

BonusNext ==
    \/ \E s \in DOMAIN users, t \in 1..MaxTasks : BonusFindUser(1, s, t)
    \/ BonusSave(1)

BonusSeqSpec == LedgerInit /\ [][BonusNext]_vars

(***************************************************************************)
(* Grading as the server runs it: PUT /api/homework/:id/grade is a chain   *)
(* of store calls, and the calls of two requests interleave.               *)
(***************************************************************************)
MaxGraded == 2        \* homeworks of the group whose submissions are graded

\* a grading request: its position, the homework and student it names, the
\* Rating document as Rating.findOne loaded it and as the handler changed it
GradeIdle ==
    [pc |-> "idle", student |-> 0, homework |-> 0,
     loaded |-> NewRating(0, NoGroup), doc |-> NewRating(0, NoGroup)]

\* rating.save() sends the paths whose value differs from the loaded one;
\* every other path of the stored row stays as the store holds it
Written(stored, loaded, new) ==
    [f \in DOMAIN stored |-> IF new[f] # loaded[f] THEN new[f] ELSE stored[f]]

GradeFinish(c, resp) ==
    /\ reqs' = [reqs EXCEPT ![c] = GradeIdle]
    /\ response' = resp

GradeOk(s, h) ==
    Resp("grade", 200, "Homework graded successfully", s, homeworks[h].group, h)

\* Homework.findById, the submission lookup, and homework.save() of the grade
GradeStart(c, h, s, tg) ==
    /\ FreeSlot(c)
    /\ s \in DOMAIN users
    /\ IF h \notin DOMAIN homeworks
       THEN /\ GradeFinish(c, Resp("grade", 404, "Homework not found", s, NoGroup, h))
            /\ UNCHANGED homeworks
       ELSE IF ~HasSubmission(homeworks[h], s)
       THEN /\ GradeFinish(c, Resp("grade", 404, "Submission not found", s, NoGroup, h))
            /\ UNCHANGED homeworks
       ELSE /\ homeworks' = [homeworks EXCEPT ![h].submissions[s] =
                                [status |-> "graded", totalGrade |-> tg]]
            /\ reqs' = [reqs EXCEPT ![c] =
                          [GradeIdle EXCEPT !.pc = "findRating", !.student = s,
                                           !.homework = h]]
            /\ UNCHANGED response
    /\ UNCHANGED <<users, ratings, rewards>>

\* updateStudentRating: Rating.findOne; without a row it returns and the
\* handler answers 200
GradeFindRating(c) ==
    LET q == reqs[c]
        i == FindRating(q.student, homeworks[q.homework].group)
    IN
    /\ q.pc = "findRating"
    /\ IF i = 0
       THEN GradeFinish(c, GradeOk(q.student, q.homework))
       ELSE /\ reqs' = [reqs EXCEPT ![c].pc = "findHomeworks",
                                    ![c].loaded = ratings[i], ![c].doc = ratings[i]]
            /\ UNCHANGED response
    /\ UNCHANGED <<users, ratings, homeworks, rewards>>

\* updateStudentRating: Homework.find({group}) and the assignments to the
\* loaded document
GradeFindHomeworks(c) ==
    LET q == reqs[c] IN
    /\ q.pc = "findHomeworks"
    /\ reqs' = [reqs EXCEPT ![c].pc = "saveRating",
                             ![c].doc = Recomputed(q.loaded, homeworks)]
    /\ UNCHANGED <<users, ratings, homeworks, rewards, response>>

\* updateStudentRating: rating.save(); a validation error is caught and
\* logged, and the handler answers 200 either way
GradeSaveRating(c) ==
    LET q == reqs[c]
        i == FindRating(q.student, homeworks[q.homework].group)
    IN
    /\ q.pc = "saveRating"
    /\ ratings' = IF Validated(q.doc)
                  THEN [ratings EXCEPT ![i] = Written(@, q.loaded, PreSave(q.doc))]
                  ELSE ratings
    /\ GradeFinish(c, GradeOk(q.student, q.homework))
    /\ UNCHANGED <<users, homeworks, rewards>>

GradeInit ==
    /\ users = <<>>
    /\ ratings = <<>>
    /\ homeworks = <<>>
    /\ rewards = <<>>
    /\ reqs = [c \in Slots |-> GradeIdle]
    /\ response = NoResponse

\* the students and the homework records of group g1 are set up while no
\* grading is under way; of the gradings at most k run at a time
GradeNext(k) ==
    \/ /\ \A c \in Slots : reqs[c].pc = "idle"
       /\ \/ Register("g1", MaxScaled)
          \/ CreateHomework("g1", MaxGraded)
          \/ \E h \in 1..MaxGraded, s \in 1..MaxScaled : SubmitHomework(h, s)
    \/ \E c \in 1..k, h \in 1..MaxGraded, s \in 1..MaxScaled, tg \in TotalGrades :
          GradeStart(c, h, s, tg)
    \/ \E c \in 1..k : GradeFindRating(c)
    \/ \E c \in 1..k : GradeFindHomeworks(c)
    \/ \E c \in 1..k : GradeSaveRating(c)

\* gradings run one at a time
GradeSeqSpec == GradeInit /\ [][GradeNext(1)]_vars

\* gradings interleave at their store calls
GradeRaceSpec == GradeInit /\ [][GradeNext(MaxInFlight)]_vars

\* the first task of the catalog that student s has no record for (the
\* first task when every task has one)
NextTask(s) ==
    LET open == {t \in DOMAIN BonusTaskPoints :
                    \A k \in DOMAIN users[s].completedBonusTasks :
                        users[s].completedBonusTasks[k].taskId # t}
    IN IF open = {} THEN 1
       ELSE CHOOSE t \in open : \A u \in open : t <= u

\* the student works through the catalog in order, the completion requests
\* interleaving at their store calls
BonusRaceNext ==
    \/ \E c \in Slots, s \in DOMAIN users : BonusFindUser(c, s, NextTask(s))
    \/ \E c \in Slots : BonusSave(c)

BonusRaceSpec == LedgerInit /\ [][BonusRaceNext]_vars

(***************************************************************************)
(* The rank resolve as the server runs it: one read of the sorted rows,    *)
(* then one save per row, issued together by Promise.all.  The saves reach *)
(* the store in any order and between the store calls of other requests.   *)
(***************************************************************************)
\* a resolve request: its position, the group, the order the read returned,
\* the documents as loaded, and the rows whose save has reached the store
ResolveIdle ==
    [pc |-> "idle", group |-> NoGroup, order |-> <<>>, loaded |-> <<>>, saved |-> {}]

\* res.json of the resolve, or the catch block when a save was rejected
ResolveDone(q) ==
    IF \A i \in q.saved : Validated(q.loaded[i])
    THEN Resp("groupRatings", 200, "", 0, q.group, Len(q.order))
    ELSE Resp("groupRatings", 500, "Server error", 0, q.group, 0)

\* Rating.find({group}).sort({totalScore: -1}); a group without rows is
\* answered at once
ResolveRead(c, g, stable) ==
    /\ reqs[c].pc \in {"idle", "stopped"}
    /\ \E o \in SortedOrders(g, stable) :
          LET q == [pc |-> "save", group |-> g, order |-> o,
                    loaded |-> ratings, saved |-> {}]
          IN IF GroupRows(g) = {}
             THEN /\ reqs' = [reqs EXCEPT ![c] = ResolveIdle]
                  /\ response' = ResolveDone(q)
             ELSE /\ reqs' = [reqs EXCEPT ![c] = q]
                  /\ UNCHANGED response
    /\ UNCHANGED <<users, ratings, homeworks, rewards>>

\* rating.rankInGroup = index + 1 and rating.save() of one loaded row; the
\* save that completes Promise.all is followed by res.json
ResolveSaveRow(c, i) ==
    LET q == reqs[c]
        doc == [q.loaded[i] EXCEPT !.rankInGroup = RankAt(PositionIn(q.order, i))]
        done == [q EXCEPT !.saved = @ \cup {i}]
    IN
    /\ q.pc = "save"
    /\ i \in DOMAIN q.loaded
    /\ q.loaded[i].group = q.group
    /\ i \notin q.saved
    /\ ratings' = IF Validated(doc)
                  THEN [ratings EXCEPT ![i] = Written(@, q.loaded[i], PreSave(doc))]
                  ELSE ratings
    /\ IF Cardinality(done.saved) = Len(q.order)
       THEN /\ reqs' = [reqs EXCEPT ![c] = ResolveIdle]
            /\ response' = ResolveDone(done)
       ELSE /\ reqs' = [reqs EXCEPT ![c] = done]
            /\ UNCHANGED response
    /\ UNCHANGED <<users, homeworks, rewards>>

\* the server process ends while saves of a resolve are outstanding: the
\* saves that reached the store stay, the others never happen
ResolveStop(c) ==
    /\ reqs[c].pc = "save"
    /\ reqs' = [reqs EXCEPT ![c].pc = "stopped"]
    /\ UNCHANGED <<users, ratings, homeworks, rewards, response>>

ResolveInit ==
    /\ users = <<>>
    /\ ratings = <<>>
    /\ homeworks = <<>>
    /\ rewards = <<>>
    /\ reqs = [c \in Slots |-> ResolveIdle]
    /\ response = NoResponse

\* the teacher update that runs between the store calls of the resolves: a
\* grade, which the hook turns into a totalScore at once
RaceBodies == { [grades |-> 10] }

\* resolves of group g1 interleave with each other and with teacher updates;
\* the store returns tied rows in insertion order
ResolveRaceNext ==
    \/ /\ \A c \in Slots : reqs[c].pc = "idle"
       /\ Register("g1", MaxStudents)
    \/ \E s \in 1..MaxStudents, body \in RaceBodies : UpdateRating(s, body)
    \/ \E c \in Slots : ResolveRead(c, "g1", TRUE)
    \/ \E c \in Slots, i \in 1..MaxStudents : ResolveSaveRow(c, i)

ResolveRaceSpec == ResolveInit /\ [][ResolveRaceNext]_vars

\* one resolve at a time, which may stop part-way; nothing else writes from
\* the read of a resolve until the next resolve has read
ResolveResumeNext ==
    \/ /\ reqs[1].pc = "idle"
       /\ \/ Register("g1", MaxStudents)
          \/ \E s \in 1..MaxStudents, body \in UpdateBodies : UpdateRating(s, body)
    \/ ResolveRead(1, "g1", TRUE)
    \/ \E i \in 1..MaxStudents : ResolveSaveRow(1, i)
    \/ ResolveStop(1)

ResolveResumeSpec == ResolveInit /\ [][ResolveResumeNext]_vars

(***************************************************************************)
(* Group membership: the three handlers that set User.group.               *)
(***************************************************************************)
\* POST /api/admin/users with role student: the user, with group groupId
\* when the body names one, and the push onto the group's students; no
\* Rating is created
CreateUser(g, cap) ==
    /\ Len(users) < cap
    /\ users' = Append(users, NewUser(g))
    /\ response' = Resp("createUser", 201, "User created successfully", Len(users) + 1, g, 0)
    /\ UNCHANGED <<ratings, homeworks, rewards, reqs>>

\* PUT /api/groups/:id/add-students with studentIds = [s]: $addToSet on the
\* group and User.updateMany setting group; no Rating is created
AddStudents(g, s) ==
    /\ IF s \notin DOMAIN users
       THEN /\ response' = Resp("addStudents", 400, "Some students not found or invalid", s, g, 0)
            /\ UNCHANGED users
       ELSE /\ users' = [users EXCEPT ![s].group = g]
            /\ response' = Resp("addStudents", 200, "1 students added to group successfully", s, g, 0)
    /\ UNCHANGED <<ratings, homeworks, rewards, reqs>>

MemberNext ==
    \/ \E g \in Groups : Register(g, MaxStudents)
    \/ \E g \in Groups \cup {NoGroup} : CreateUser(g, MaxStudents)
    \/ \E g \in Groups, s \in 1..MaxStudents : AddStudents(g, s)
    \/ \E s \in 1..MaxStudents, body \in RaceBodies : UpdateRating(s, body)

MemberSpec == Init /\ [][MemberNext]_vars

(***************************************************************************)
(* Properties of the rating engine.                                        *)
(***************************************************************************)
\* the last completed request was a rank resolve that answered 200
Resolved200(r) == r.op \in {"groupRatings", "studentRating"} /\ r.status = 200

\* C1: every persisted Rating row stores the totalScore that the weighted,
\* rounded formula gives for the components stored in the same row.  Rows
\* change only by persisted writes, so this is an invariant of the store.
C1_TotalScoreMatchesRow ==
    \A i \in DOMAIN ratings : ratings[i].totalScore = WeightedScore(ratings[i])

\* C2: a grading recompute that directly follows a grading recompute for the
\* same student and group, and that finds the homework records as the first
\* one left them, leaves every Rating row as the first one left it.
C2_RecomputeIdempotent ==
    [][(/\ response.op = "grade" /\ response.status = 200
        /\ response'.op = "grade" /\ response'.status = 200
        /\ response'.student = response.student
        /\ response'.group = response.group
        /\ homeworks' = homeworks)
       => ratings' = ratings]_vars

\* C3: right after a rank resolve of a group with N rows, the rankInGroup
\* values of the group's rows are exactly 1..N, each used once.
C3_RanksDense ==
    Resolved200(response) =>
        LET rows == GroupRows(response.group)
        IN /\ {ratings[i].rankInGroup : i \in rows} = 1..Cardinality(rows)
           /\ \A i, j \in rows :
                 ratings[i].rankInGroup = ratings[j].rankInGroup => i = j

\* a resolve of a three-row group holding a tie and two different scores
C3_Witness ==
    /\ Resolved200(response)
    /\ Cardinality(GroupRows(response.group)) = 3
    /\ \E i, j, k \in GroupRows(response.group) :
          /\ i # j
          /\ ratings[i].totalScore = ratings[j].totalScore
          /\ ratings[k].totalScore # ratings[i].totalScore

\* C4: right after a rank resolve, a row ranked above another row of the
\* group does not hold a lower stored totalScore.
C4_RanksFollowScores ==
    Resolved200(response) =>
        \A a, b \in GroupRows(response.group) :
            ratings[a].rankInGroup < ratings[b].rankInGroup
               => ratings[a].totalScore >= ratings[b].totalScore

\* C5: a rank resolve that directly follows a rank resolve of the same group
\* gives every row of the group the rank the first one gave it.
C5_ResolveIdempotent ==
    [][(/\ Resolved200(response) /\ Resolved200(response')
        /\ response'.group = response.group)
       => \A i \in GroupRows(response.group) :
             ratings'[i].rankInGroup = ratings[i].rankInGroup]_vars

\* C6: a rank resolve ranks rows of equal totalScore in insertion order: of
\* two tied rows of the group, the one inserted first gets the smaller rank.
C6_TiesByInsertionOrder ==
    [][Resolved200(response')
       => \A i, j \in GroupRows(response'.group) :
             (i < j /\ ratings[i].totalScore = ratings[j].totalScore)
                => ratings'[i].rankInGroup < ratings'[j].rankInGroup]_vars

(***************************************************************************)
(* Properties of the points economy.                                       *)
(***************************************************************************)
\* the sum of pointsEarned over a student's completedBonusTasks
RECURSIVE SumEarned(_)
SumEarned(tasks) ==
    IF tasks = <<>> THEN 0 ELSE Head(tasks).pointsEarned + SumEarned(Tail(tasks))

\* the sum of pointsRequired over the rewards whose claimedBy holds student s
RECURSIVE SumClaimed(_, _)
SumClaimed(rs, s) ==
    IF rs = <<>> THEN 0
    ELSE (IF HasClaim(Head(rs), s) THEN Head(rs).pointsRequired ELSE 0)
         + SumClaimed(Tail(rs), s)

\* the number of claim records of student s in a reward document
ClaimCount(doc, s) ==
    Cardinality({k \in DOMAIN doc.claimedBy : doc.claimedBy[k].student = s})

Quiescent == \A c \in Slots : reqs[c].pc = "idle"

\* C7: with requests run one at a time, no student's balance is ever
\* negative, and a claim request that reaches the points check while the
\* stored balance is below the reward's pointsRequired ends there with
\* 400 "Insufficient points", the users and the rewards left as they were.
C7_SequentialBalanceNonNegative ==
    /\ [](\A s \in DOMAIN users : users[s].points >= 0)
    /\ [][\A c \in Slots :
            (/\ reqs[c].pc = "findReward"
             /\ reqs'[c] # reqs[c]
             /\ reqs[c].reward \in DOMAIN rewards
             /\ users[reqs[c].student].points
                   < rewards[reqs[c].reward].pointsRequired)
            => /\ reqs'[c].pc = "idle"
               /\ response'.status = 400
               /\ response'.message = "Insufficient points"
               /\ users' = users
               /\ rewards' = rewards]_vars

\* a claim was just rejected for insufficient points although the student
\* holds points (earned by a bonus task, some already spent on a reward)
C7_Witness ==
    /\ response.op = "claim"
    /\ response.message = "Insufficient points"
    /\ users[response.student].points > 0
    /\ \E r \in DOMAIN rewards : HasClaim(rewards[r], response.student)

\* C8: a student who holds one claim each on two different rewards (and no
\* second claim on any reward) was able to pay for both: the balance is not
\* negative, however the two claim requests interleaved.
C8_NoDoubleSpend ==
    \A s \in DOMAIN users :
        (/\ \E r1, r2 \in DOMAIN rewards :
               r1 # r2 /\ HasClaim(rewards[r1], s) /\ HasClaim(rewards[r2], s)
         /\ \A r \in DOMAIN rewards : ClaimCount(rewards[r], s) <= 1
         /\ \A c \in Slots : reqs[c].pc \notin {"save", "saveUser"})
        => users[s].points >= 0

\* C9: whenever no request is in progress, a student's points equal the
\* points earned by the completed bonus tasks minus the pointsRequired of
\* the rewards the student has claimed.
C9_QuiescentBalanceIsCreditsMinusDebits ==
    Quiescent =>
        \A s \in DOMAIN users :
            users[s].points = SumEarned(users[s].completedBonusTasks)
                                - SumClaimed(rewards, s)

\* C10: with requests run one at a time, in every state (also between the
\* writes of a handler) the debits taken from a student's balance are those
\* of the rewards that hold a claim record of the student, and no others.
C10_ClaimAndDebitCommitTogether ==
    \A s \in DOMAIN users :
        SumEarned(users[s].completedBonusTasks) - users[s].points
            = SumClaimed(rewards, s)

\* C11: in every state, whatever the interleaving of claim requests, a
\* reward's claimedBy holds at most one claim record of a student (and so the
\* student is debited at most once for that reward).
C11_AtMostOneClaimPerStudent ==
    \A r \in DOMAIN rewards : \A s \in DOMAIN users :
        ClaimCount(rewards[r], s) <= 1

\* the unlock chain as a state predicate: a student who holds a claim on a
\* reward of order k holds one on every reward of order k-1 of the catalog
UnlockChain ==
    \A s \in DOMAIN users : \A r, p \in DOMAIN rewards :
        (HasClaim(rewards[r], s) /\ rewards[p].order = rewards[r].order - 1)
            => HasClaim(rewards[p], s)

\* C12 as stated: the unlock chain holds in every reachable state, over all
\* sequences of reward creations and claims.
C12_UnlockChainAlways == UnlockChain

\* C12, amended: the unlock chain is a condition on the claim, checked against
\* the catalog of that moment.  A claim passes the sequential-order check
\* only if the student holds a claim on every reward of the order below that
\* the catalog holds then, and claim records are never removed; a reward of
\* order k-1 created after the claim on order k is not covered.
C12_UnlockChainAtClaim ==
    [][/\ \A c \in Slots :
            (reqs[c].pc = "findPrevious" /\ reqs'[c].pc = "debit")
            => \A p \in DOMAIN rewards :
                  rewards[p].order = rewards[reqs[c].reward].order - 1
                      => HasClaim(rewards[p], reqs[c].student)
       /\ \A r \in DOMAIN rewards :
            /\ r \in DOMAIN rewards'
            /\ Len(rewards'[r].claimedBy) >= Len(rewards[r].claimedBy)
            /\ SubSeq(rewards'[r].claimedBy, 1, Len(rewards[r].claimedBy))
                  = rewards[r].claimedBy
            /\ Len(rewards'[r].claimedBy) > Len(rewards[r].claimedBy)
                  => \E c \in Slots : reqs[c].pc = "save" /\ reqs[c].reward = r]_vars

\* a claim on a reward has passed the order check while the catalog holds
\* the reward of the order below
C12_Witness ==
    \E c \in Slots :
        /\ reqs[c].pc = "debit"
        /\ \E p \in DOMAIN rewards : rewards[p].order = reqs[c].order - 1

\* the student holds no claim on some reward of the order below reward r
PreviousUnclaimed(s, r) ==
    \E p \in DOMAIN rewards :
        rewards[p].order = rewards[r].order - 1 /\ ~HasClaim(rewards[p], s)

\* the answer 400 of a claim request of student s for reward r
Rejected(c, message) ==
    /\ reqs'[c] = Idle
    /\ response' = Resp("claim", 400, message, reqs[c].student, NoGroup, reqs[c].reward)
    /\ users' = users
    /\ rewards' = rewards

\* C13: with requests run one at a time, a claim on a reward whose
\* predecessor in order is in the catalog and not claimed by the student
\* fails with "Must claim previous rewards first" and changes nothing; a claim
\* by a student with enough points who holds the predecessor's claim passes
\* every check, lowers the balance by exactly pointsRequired and appends one
\* pending claim record.
C13_ClaimChain ==
    [][\A c \in Slots :
        LET q == reqs[c]
            s == q.student
            r == q.reward
        IN /\ (q.pc = "findPrevious" /\ reqs'[c] # q /\ PreviousUnclaimed(s, r))
                 => Rejected(c, "Must claim previous rewards first")
           /\ (/\ q.pc = "findReward" /\ reqs'[c] # q
               /\ r \in DOMAIN rewards
               /\ users[s].points >= rewards[r].pointsRequired
               /\ ~HasClaim(rewards[r], s))
                 => reqs'[c].pc = "findPrevious"
           /\ (q.pc = "findPrevious" /\ reqs'[c] # q /\ ~PreviousUnclaimed(s, r))
                 => reqs'[c].pc = "debit"
           /\ (q.pc = "debit" /\ reqs'[c] # q)
                 => /\ reqs'[c].pc = "save"
                    /\ users'[s].points = users[s].points - rewards[r].pointsRequired
                    /\ rewards' = rewards
           /\ (q.pc = "save" /\ reqs'[c] # q)
                 => /\ reqs'[c] = Idle
                    /\ response' = Resp("claim", 200, "Reward claimed successfully",
                                        s, NoGroup, r)
                    /\ rewards' = [rewards EXCEPT ![r].claimedBy =
                                      Append(@, [student |-> s, status |-> "pending"])]
                    /\ users' = users]_vars

\* the claim on the reward of order 2 has just succeeded for a student who
\* holds the claim on the reward of order 1, and the balance is what was
\* earned less the two rewards
C13_Witness ==
    /\ response.op = "claim" /\ response.status = 200
    /\ response.item \in DOMAIN rewards
    /\ rewards[response.item].order = 2
    /\ \E p \in DOMAIN rewards :
          rewards[p].order = 1 /\ HasClaim(rewards[p], response.student)
    /\ users[response.student].points
          = SumEarned(users[response.student].completedBonusTasks)
              - SumClaimed(rewards, response.student)

\* C14: with requests run one at a time, the checks of a claim answer in the
\* order Reward not found, Insufficient points, Reward already claimed, Must
\* claim previous rewards first: a request that fails several gets the first
\* of them (a reward already claimed by a student who now has too few points
\* gives Insufficient points), and every rejection leaves users and rewards
\* as they were.
C14_FirstFailingCheckWins ==
    [][\A c \in Slots :
        LET q == reqs[c]
            s == q.student
            r == q.reward
        IN /\ (q.pc = "findReward" /\ reqs'[c] # q)
                 => IF r \notin DOMAIN rewards
                    THEN /\ reqs'[c] = Idle
                         /\ response' = Resp("claim", 404, "Reward not found",
                                             s, NoGroup, r)
                         /\ users' = users /\ rewards' = rewards
                    ELSE IF users[s].points < rewards[r].pointsRequired
                    THEN Rejected(c, "Insufficient points")
                    ELSE IF HasClaim(rewards[r], s)
                    THEN Rejected(c, "Reward already claimed")
                    ELSE reqs'[c].pc = "findPrevious" /\ response' = response
           /\ (q.pc = "findPrevious" /\ reqs'[c] # q)
                 => IF PreviousUnclaimed(s, r)
                    THEN Rejected(c, "Must claim previous rewards first")
                    ELSE reqs'[c].pc = "debit" /\ response' = response]_vars

\* a claim was just refused for insufficient points on a reward the student
\* has already claimed
C14_Witness ==
    /\ response.op = "claim"
    /\ response.message = "Insufficient points"
    /\ response.item \in DOMAIN rewards
    /\ HasClaim(rewards[response.item], response.student)

\* user.completedBonusTasks.some(ct => ct.taskId === t)
Completed(s, t) ==
    \E k \in DOMAIN users[s].completedBonusTasks :
        users[s].completedBonusTasks[k].taskId = t

\* the number of completion records of task t held by student s
CompletionCount(s, t) ==
    Cardinality({k \in DOMAIN users[s].completedBonusTasks :
                    users[s].completedBonusTasks[k].taskId = t})

\* C15: with requests run one at a time, a completion request for a task of
\* the catalog that the student has not completed is accepted, and its save
\* appends one completion record and adds the task's points to the balance;
\* a request for a task the student has completed is answered 400 "Task
\* already completed" and leaves the user document as it was; so no task is
\* credited twice.
C15_BonusCreditExactlyOnce ==
    /\ [](\A s \in DOMAIN users : \A t \in DOMAIN BonusTaskPoints :
             CompletionCount(s, t) <= 1)
    /\ [][/\ \A c \in Slots :
               /\ (reqs[c].pc = "idle" /\ reqs'[c].pc = "saveUser")
                     => /\ reqs'[c].task \in DOMAIN BonusTaskPoints
                        /\ ~Completed(reqs'[c].student, reqs'[c].task)
                        /\ users' = users
               /\ (reqs[c].pc = "saveUser" /\ reqs'[c] # reqs[c])
                     => LET s == reqs[c].student
                            t == reqs[c].task
                        IN /\ users'[s].completedBonusTasks =
                                 Append(users[s].completedBonusTasks,
                                        [taskId |-> t,
                                         pointsEarned |-> BonusTaskPoints[t]])
                           /\ users'[s].points = users[s].points + BonusTaskPoints[t]
                           /\ response'.status = 200
          /\ (response' # response /\ response'.op = "completeBonusTask"
                /\ response'.status # 200)
                => /\ users' = users
                   /\ IF response'.item \in DOMAIN BonusTaskPoints
                      THEN /\ Completed(response'.student, response'.item)
                           /\ response'.status = 400
                           /\ response'.message = "Task already completed"
                      ELSE response'.status = 404]_vars

\* a second completion of a task was just refused, and the task is recorded
\* and paid once
C15_Witness ==
    /\ response.op = "completeBonusTask"
    /\ response.message = "Task already completed"
    /\ CompletionCount(response.student, response.item) = 1
    /\ users[response.student].points + SumClaimed(rewards, response.student)
          = SumEarned(users[response.student].completedBonusTasks)

\* C16: in every state, whatever the interleaving of completion requests, a
\* task identifier appears at most once in a student's completedBonusTasks.
C16_TaskRecordedOnce ==
    \A s \in DOMAIN users : \A t \in DOMAIN BonusTaskPoints :
        CompletionCount(s, t) <= 1

\* the completed-task counts at which an achievement is awarded
Thresholds == {1, 5, 10}

\* C17: with requests run one at a time, a completion that brings the
\* student's completed-task count to 1, 5 or 10 appends exactly one
\* achievement and any other completion appends none; achievements are never
\* removed and none appears twice, so a student with n completed tasks holds
\* as many achievements as there are thresholds <= n.
C17_AchievementsAtThresholds ==
    /\ [](\A s \in DOMAIN users :
            LET a == users[s].achievements
            IN /\ Len(a) = Cardinality({th \in Thresholds :
                                           th <= Len(users[s].completedBonusTasks)})
               /\ \A i, j \in DOMAIN a : i # j => a[i] # a[j])
    /\ [][\A s \in DOMAIN users :
            LET a == users[s].achievements
                b == users'[s].achievements
                n == Len(users'[s].completedBonusTasks)
            IN /\ Len(b) >= Len(a)
               /\ SubSeq(b, 1, Len(a)) = a
               /\ n = Len(users[s].completedBonusTasks) => b = a
               /\ n = Len(users[s].completedBonusTasks) + 1
                    => Len(b) = Len(a) + (IF n \in Thresholds THEN 1 ELSE 0)]_vars

\* the fifth completion has just been saved and the student holds the two
\* achievements of the counts 1 and 5
C17_Witness ==
    /\ response.op = "completeBonusTask" /\ response.status = 200
    /\ Len(users[response.student].completedBonusTasks) = 5
    /\ Len(users[response.student].achievements) = 2

(***************************************************************************)
(* Properties of the rating scale.                                         *)
(***************************************************************************)
\* the request that made this step is PUT /ratings/student/:id of the row's
\* student with a body that supplies field f with value v
Supplied(row, f, v) ==
    \E body \in ScaleBodies :
        /\ f \in DOMAIN body
        /\ body[f] = v
        /\ UpdateRating(row.student, body)

\* C18: in every stored Rating row with totalHomeworks > 0, homeworkCompletion
\* is round(completedHomeworks / totalHomeworks * 10), and with totalClasses
\* > 0 attendance is round(attendedClasses / totalClasses * 10), whatever
\* value the caller supplied; a write that leaves the counter at 0 leaves the
\* percentage at the value it had, or at the value the request supplied.
C18_PercentagesFollowCounters ==
    /\ [](\A i \in DOMAIN ratings :
            LET r == ratings[i]
            IN /\ r.totalHomeworks > 0 =>
                    r.homeworkCompletion
                        = (20 * r.completedHomeworks + r.totalHomeworks)
                              \div (2 * r.totalHomeworks)
               /\ r.totalClasses > 0 =>
                    r.attendance
                        = (20 * r.attendedClasses + r.totalClasses)
                              \div (2 * r.totalClasses))
    /\ [][\A i \in DOMAIN ratings :
            LET a == ratings[i]
                b == ratings'[i]
            IN /\ (b.totalHomeworks = 0 /\ b.homeworkCompletion # a.homeworkCompletion)
                    => Supplied(a, "homeworkCompletion", b.homeworkCompletion)
               /\ (b.totalClasses = 0 /\ b.attendance # a.attendance)
                    => Supplied(a, "attendance", b.attendance)]_vars

\* an update has just been saved to a row whose class counters are positive,
\* so that attendance is their percentage, and whose homework counter is 0,
\* so that homeworkCompletion is the 7 a request supplied
C18_Witness ==
    /\ response.op = "updateRating" /\ response.status = 200
    /\ \E i \in DOMAIN ratings :
          /\ ratings[i].student = response.student
          /\ ratings[i].totalClasses > 0
          /\ ratings[i].attendance = 10
          /\ ratings[i].totalHomeworks = 0
          /\ ratings[i].homeworkCompletion = 7

\* C19: in every state, every stored Rating row has grades, attendance,
\* homeworkCompletion, classParticipation and totalScore within [0, 10].
C19_ComponentsInScale ==
    \A i \in DOMAIN ratings :
        /\ FracInScale(ratings[i].grades)
        /\ InScale(ratings[i].attendance)
        /\ InScale(ratings[i].homeworkCompletion)
        /\ InScale(ratings[i].classParticipation)
        /\ InScale(ratings[i].totalScore)

\* the body supplies grades, attendance, homeworkCompletion or
\* classParticipation outside [0, 10]
OutOfScale(body) ==
    \E f \in {"grades", "attendance", "homeworkCompletion", "classParticipation"} :
        f \in DOMAIN body /\ (body[f] < 0 \/ body[f] > 10)

\* C20: a rating update whose body supplies a component outside [0, 10] is
\* answered with an error and leaves every stored Rating row as it was.
C20_OutOfScaleUpdateRejected ==
    [][\A s \in 1..MaxScaled : \A body \in ScaleBodies :
          (OutOfScale(body) /\ UpdateRating(s, body))
              => /\ ratings' = ratings
                 /\ response'.op = "updateRating"
                 /\ response'.status >= 400]_vars

\* an update was just refused although the student's stored row is valid and
\* holds values given by earlier updates: the body was at fault, and the row
\* still holds them
C20_Witness ==
    /\ response.op = "updateRating" /\ response.status = 500
    /\ \E i \in DOMAIN ratings :
          /\ ratings[i].student = response.student
          /\ ratings[i].group = response.group
          /\ Validated(ratings[i])
          /\ ratings[i].attendance = 7
          /\ ratings[i].totalScore = 2

(***************************************************************************)
(* Properties of grading, membership and the resolve under interleaving.   *)
(***************************************************************************)
\* C21: a grading request answers 200 only if the rating recompute it calls
\* found the Rating row of (student, homework.group): a recompute that was
\* skipped for want of a row is reported to the caller.
C21_SkippedRecomputeSurfaced ==
    (response.op = "grade" /\ response.status = 200)
        => FindRating(response.student, response.group) # 0

\* the fields a recompute assigns, as a recompute run now would leave them
Derived(r) ==
    LET d == Recomputed(r, homeworks)
    IN /\ r.averageGrade = d.averageGrade
       /\ r.grades = d.grades
       /\ r.totalHomeworks = d.totalHomeworks
       /\ r.completedHomeworks = d.completedHomeworks

RanksOf(g) == {ratings[i].rankInGroup : i \in GroupRows(g)}

\* C23: once two resolves of a group and a rating update have all completed,
\* however they interleaved, the ranks of the group's rows are a permutation
\* of 1..N.
C23_RanksPermutationAfterRace ==
    (/\ \A c \in Slots : reqs[c].pc = "idle"
     /\ response.op = "groupRatings" /\ response.status = 200)
        => RanksOf(response.group) = 1..Cardinality(GroupRows(response.group))

\* C24: a resolve that stopped after any subset of its saves is made good by
\* the next complete resolve: with no other write in between, the next
\* resolve ranks the rows in the order the stopped one read, which is the
\* order an uninterrupted resolve would have written.
C24_StoppedResolveResumes ==
    [][\A c \in Slots :
          (reqs[c].pc = "stopped" /\ reqs'[c].pc = "save")
              => reqs'[c].order = reqs[c].order]_vars

\* C25: every student whose User.group is set has a Rating row for that
\* group, whichever handler set the group.
C25_GroupedStudentHasRating ==
    \A s \in DOMAIN users :
        users[s].group # NoGroup => FindRating(s, users[s].group) # 0

\* C26: the resolve of a group that has no Rating rows answers 200 with an
\* empty sequence of rows and writes nothing.
C26_EmptyGroupResolve ==
    [][\A g \in Groups :
          (GetGroupRatings(g, FALSE) /\ GroupRows(g) = {})
              => /\ response'.status = 200
                 /\ response'.item = 0
                 /\ ratings' = ratings]_vars

\* a group without rows was resolved while the other group has rows
C26_Witness ==
    /\ response.op = "groupRatings" /\ response.status = 200
    /\ response.item = 0
    /\ GroupRows(response.group) = {}
    /\ ratings # <<>>

\* C27: a resolve of group g changes nothing but rankInGroup in the rows of g
\* (totalScore, grades, attendance, homeworkCompletion, classParticipation
\* and the counters stay), and leaves the rows of every other group alone.
C27_ResolveWritesRanksOnly ==
    [][\A g \in Groups :
          GetGroupRatings(g, TRUE)
              => \A i \in DOMAIN ratings :
                    ratings'[i] = IF ratings[i].group = g
                                  THEN [ratings[i] EXCEPT !.rankInGroup =
                                            ratings'[i].rankInGroup]
                                  ELSE ratings[i]]_vars

\* the homeworks of group g, those the student submitted, those graded
HomeworksOf(g) == {h \in DOMAIN homeworks : homeworks[h].group = g}
SubmittedBy(s, g) == {h \in HomeworksOf(g) : HasSubmission(homeworks[h], s)}
GradedFor(s, g) ==
    {h \in SubmittedBy(s, g) : homeworks[h].submissions[s].status = "graded"}

RECURSIVE SumTotalGrade(_, _)
SumTotalGrade(s, hs) ==
    IF hs = {} THEN 0
    ELSE LET h == CHOOSE x \in hs : TRUE
         IN homeworks[h].submissions[s].totalGrade + SumTotalGrade(s, hs \ {h})

\* fraction f is the mean of the totalGrade of the graded submissions, a
\* totalGrade of 0 counted; 0 when nothing is graded
IsMeanOfGraded(f, s, g) ==
    IF GradedFor(s, g) = {}
    THEN f.num = 0
    ELSE f.num * Cardinality(GradedFor(s, g)) = f.den * SumTotalGrade(s, GradedFor(s, g))

\* C28: after a grading request has completed, the student's row holds
\* totalHomeworks = the number of homeworks of the group, completedHomeworks
\* = the number of them the student submitted, and averageGrade and grades =
\* the mean of totalGrade over all graded submissions, a grade of 0 included.
C28_RecomputeCountsEveryGrade ==
    (/\ \A c \in Slots : reqs[c].pc = "idle"
     /\ response.op = "grade" /\ response.status = 200)
        => LET s == response.student
               g == response.group
               i == FindRating(s, g)
           IN i # 0 =>
                /\ ratings[i].totalHomeworks = Cardinality(HomeworksOf(g))
                /\ ratings[i].completedHomeworks = Cardinality(SubmittedBy(s, g))
                /\ IsMeanOfGraded(ratings[i].averageGrade, s, g)
                /\ IsMeanOfGraded(ratings[i].grades, s, g)

\* C29: in every reachable state a student's completedBonusTasks holds at
\* most 8 records, each for a task of the catalog.
C29_AtMostCatalogRecords ==
    \A s \in DOMAIN users :
        /\ Len(users[s].completedBonusTasks) <= Cardinality(DOMAIN BonusTaskPoints)
        /\ \A k \in DOMAIN users[s].completedBonusTasks :
              users[s].completedBonusTasks[k].taskId \in DOMAIN BonusTaskPoints

\* C30: the newAchievements a successful completion returns are exactly the
\* achievements that call appended: none when no milestone fired, and never
\* an achievement of an earlier call.
C30_NewAchievementsAreThisCalls ==
    [][\A c \in Slots :
          BonusSave(c)
              => LET s == reqs[c].student
                 IN response'.data =
                        SubSeq(users'[s].achievements,
                               Len(users[s].achievements) + 1,
                               Len(users'[s].achievements))]_vars

====
